---------------------------- MODULE Spec2Model ----------------------------
(***************************************************************************)
(* Model of app/main.py of timetable_pdf_extractor: the upload endpoint,   *)
(* the asynchronous wrapper extract_pdf_data and the grid walk of          *)
(* extract_pdf_data_sync, which turns the rows of the extracted table into *)
(* day -> hour -> list of lesson entries.                                  *)
(*                                                                         *)
(* A Python str is a sequence of one-character strings.  The table is an   *)
(* input: its rows and cells are drawn where the code reads them (the row  *)
(* at the head of the row loop, the cell at the head of the cell loop).    *)
(***************************************************************************)
EXTENDS Integers, Sequences, FiniteSets, TLC

VARIABLES
    pc,           \* position in upload_file / extract_pdf_data / extract_pdf_data_sync
    json_output,  \* weekday -> (hour label -> list of entries)
    class_name,   \* None or a str
    table_len,    \* len(table)
    r,            \* number of rows of hour_rows taken so far
    first_cell,   \* row[0] of the current row
    hour,         \* hour label of the current row
    i,            \* column index of the cell loop
    day,          \* weekday of the current cell
    blocks,       \* cell.strip().split("\n") of the current cell
    j,            \* index of the block loop (0-based, step 2)
    exc,          \* exception leaving extract_pdf_data_sync
    extracted,    \* what the table extractor did
    response,     \* the HTTP response
    processed,    \* history: one record per block pair handled, in order
    skipped,      \* history: "row" after a skipped row, "column" after a cell with
                  \* text beyond the last weekday, else "none"
    parsed        \* number of cells whose text was split into blocks

vars == <<pc, json_output, class_name, table_len, r, first_cell, hour, i, day,
          blocks, j, exc, extracted, response, processed, skipped, parsed>>

-----------------------------------------------------------------------------
(* Bounds of the model *)

MaxHourRows == 2     \* rows of the table after the header rows
MaxCols     == 11    \* largest column index of a row
MaxCells    == 2     \* cells with text parsed in one run
MaxArrivals == 5     \* block pairs arriving in the slot of SlotSpec

-----------------------------------------------------------------------------
(* Python values *)

None == <<"<None>">>

weekdays == <<"Montag", "Dienstag", "Mittwoch", "Donnerstag", "Freitag">>

HeaderRows == 3

ColsPerDay == 2

NL == "\n"

EmptyDict == [k \in {} |-> <<>>]

Whitespace == {" ", NL, "\t"}

NoTableMsg == "No table found in the PDF."

ProcessingMsg == "Error processing the PDF file."

OnlyPdfMsg == "Only PDF files are allowed."

-----------------------------------------------------------------------------
(* str methods *)

RECURSIVE LStrip(_, _)
LStrip(s, chars) ==
    IF s # <<>> /\ Head(s) \in chars THEN LStrip(Tail(s), chars) ELSE s

RECURSIVE RStrip(_, _)
RStrip(s, chars) ==
    IF s # <<>> /\ s[Len(s)] \in chars
    THEN RStrip(SubSeq(s, 1, Len(s) - 1), chars)
    ELSE s

\* str.strip(chars); str.strip() is Strip(s, Whitespace)
Strip(s, chars) == RStrip(LStrip(s, chars), chars)

\* index of the first occurrence of sep in s, 0 when there is none (sep in s)
Find(s, sep) ==
    LET hits == {k \in 1..(Len(s) - Len(sep) + 1) :
                    SubSeq(s, k, k + Len(sep) - 1) = sep}
    IN IF hits = {} THEN 0 ELSE CHOOSE k \in hits : \A m \in hits : k <= m

\* s.split(sep, 1)
SplitOnce(s, sep) ==
    LET k == Find(s, sep)
    IN IF k = 0 THEN <<s>>
       ELSE <<SubSeq(s, 1, k - 1), SubSeq(s, k + Len(sep), Len(s))>>

\* s.split(sep)
RECURSIVE Split(_, _)
Split(s, sep) ==
    LET k == Find(s, sep)
    IN IF k = 0 THEN <<s>>
       ELSE <<SubSeq(s, 1, k - 1)>> \o Split(SubSeq(s, k + Len(sep), Len(s)), sep)

UpperChar(c) ==
    CASE c = "a" -> "A"
      [] c = "b" -> "B"
      [] c = "c" -> "C"
      [] c = "x" -> "X"
      [] OTHER -> c

\* s.upper()
Upper(s) == [k \in 1..Len(s) |-> UpperChar(s[k])]

\* dict.setdefault(key, default), as the dict after the call
SetDefault(d, key, default) ==
    IF key \in DOMAIN d THEN d ELSE d @@ (key :> default)

-----------------------------------------------------------------------------
(* One block pair of a cell (lines 89-122) *)

\* x.split("--", 1) and the two strips: <<left, right>>
SplitPair(x) ==
    IF Find(x, <<"-", "-">>) # 0
    THEN LET parts == SplitOnce(x, <<"-", "-">>)
         IN <<Strip(parts[1], Whitespace),
              IF Len(parts) > 1 THEN Strip(parts[2], Whitespace) ELSE <<>> >>
    ELSE <<Strip(x, Whitespace), <<>> >>

\* <<base_class, specialization>> of school_class
ParseClass(school_class) ==
    IF Find(school_class, <<"/">>) # 0
    THEN LET class_parts == SplitOnce(school_class, <<"/">>)
             base_class  == Strip(class_parts[1], Whitespace)
             group       == IF Len(class_parts) > 1
                            THEN Upper(Strip(class_parts[2], Whitespace))
                            ELSE <<>>
         IN <<base_class,
              IF group = <<"A">> THEN 2 ELSE IF group = <<"B">> THEN 3 ELSE 1>>
    ELSE <<Strip(school_class, Whitespace), 1>>

\* the block pair starting at index jj (0-based) of the list bs
ParseBlock(bs, jj) ==
    LET class_subject == bs[jj + 1]
        teacher_room  == IF jj + 1 < Len(bs) THEN bs[jj + 2] ELSE <<>>
        cs == SplitPair(class_subject)
        tr == SplitPair(teacher_room)
        pc2 == ParseClass(cs[1])
    IN [base_class |-> pc2[1],
        entry |-> [subject |-> cs[2], teacher |-> tr[1], room |-> tr[2],
                   specialization |-> pc2[2]]]

-----------------------------------------------------------------------------
(* Merge-or-append of one entry into the list of a slot (lines 131-148) *)

\* the condition of the scan, with the pair {2,3} taken in one order only
MatchesOneWay(existing, e) ==
    /\ existing.subject = e.subject
    /\ existing.teacher = e.teacher
    /\ existing.room = e.room
    /\ existing.specialization = 2
    /\ e.specialization = 3

\* the condition of the scan, also taking two equal specializations
MatchesSameLesson(existing, e) ==
    /\ existing.subject = e.subject
    /\ existing.teacher = e.teacher
    /\ existing.room = e.room
    /\ \/ {existing.specialization, e.specialization} = {2, 3}
       \/ existing.specialization = e.specialization

\* the condition of the scan (lines 134-137)
Matches(existing, e) ==
    /\ existing.subject = e.subject
    /\ existing.teacher = e.teacher
    /\ existing.room = e.room
    /\ {existing.specialization, e.specialization} = {2, 3}

\* a scan that gives up after the first entry of the list
FirstMatchHeadOnly(hour_list, e) ==
    IF hour_list # <<>> /\ Matches(hour_list[1], e) THEN 1 ELSE 0

\* index of the first entry the scan stops at, 0 when it runs to the end
FirstMatch(hour_list, e) ==
    LET hits == {k \in 1..Len(hour_list) : Matches(hour_list[k], e)}
    IN IF hits = {} THEN 0 ELSE CHOOSE k \in hits : \A m \in hits : k <= m

\* a merge that marks the existing entry and still appends the new one
MergeOrAppendKeepBoth(hour_list, e) ==
    LET k == FirstMatch(hour_list, e)
    IN IF k # 0
       THEN Append([hour_list EXCEPT ![k].specialization = 1], e)
       ELSE Append(hour_list, e)

\* hour_list after lines 132-148
MergeOrAppend(hour_list, e) ==
    LET k == FirstMatch(hour_list, e)
    IN IF k # 0
       THEN [hour_list EXCEPT ![k].specialization = 1]
       ELSE Append(hour_list, e)

\* an assignment of class_name without the test of line 124
SetClassNameAlways(cn, base_class) == base_class

\* an assignment of class_name that waits for a non-empty base_class
SetClassNameNonEmpty(cn, base_class) ==
    IF cn = None /\ base_class # <<>> THEN base_class ELSE cn

\* class_name after lines 124-125
SetClassName(cn, base_class) ==
    IF cn = None THEN base_class ELSE cn

\* a day index that is off by one column
DayIndexShifted(col) == col \div ColsPerDay

\* day_index of line 77
DayIndex(col) == (col - 1) \div ColsPerDay

\* a slice that keeps the last header row
HourRowCountShort(n) == IF n > HeaderRows - 1 THEN n - (HeaderRows - 1) ELSE 0

\* len(table[3:])
HourRowCount(n) == IF n > HeaderRows THEN n - HeaderRows ELSE 0

\* json_output after lines 128-148 for entry e in slot (d, h)
PutEntry(out, d, h, e) ==
    LET withDay  == SetDefault(out, d, EmptyDict)
        day_dict == SetDefault(withDay[d], h, <<>>)
    IN [withDay EXCEPT ![d] = [day_dict EXCEPT ![h] = MergeOrAppend(day_dict[h], e)]]

-----------------------------------------------------------------------------
(* Inputs: the texts a cell of the table can hold *)

\* "X--M\nT--R": whole class
CellWhole == <<"X", "-", "-", "M", NL, "T", "-", "-", "R">>

\* "X/a--M\nT--R": group A, written in lower case
CellGroupA == <<"X", "/", "a", "-", "-", "M", NL, "T", "-", "-", "R">>

\* " X / B -- M \n T -- R ": group B, with blanks around every token
CellGroupB == <<" ", "X", " ", "/", " ", "B", " ", "-", "-", " ", "M", " ", NL,
                " ", "T", " ", "-", "-", " ", "R", " ">>

\* "--M\nT--R": a class/subject line that starts with the separator
CellNoClass == <<"-", "-", "M", NL, "T", "-", "-", "R">>

\* "/B--M\nT--R": a class/subject line that starts with the group slash
CellSlashB == <<"/", "B", "-", "-", "M", NL, "T", "-", "-", "R">>

\* "Y/C--N": one block only, a group that is neither A nor B
CellOdd == <<"Y", "/", "C", "-", "-", "N">>

\* "X/A--M\nT--R\nX/B--M\nT--R": both groups in one cell
CellBothGroups == CellGroupA \o <<NL>> \o
                  <<"X", "/", "B", "-", "-", "M", NL, "T", "-", "-", "R">>

TextCells == {CellWhole, CellGroupA, CellGroupB, CellNoClass, CellSlashB,
              CellOdd, CellBothGroups}

\* None, "" and "  \n"
BlankCells == {None, <<>>, <<" ", " ", NL>>}

\* None, "", " ", ".", "1.", ".2"
FirstCells == {None, <<>>, <<" ">>, <<".">>, <<"1", ".">>, <<".", "2">>}

\* `not x` of a value that is None or a str
Falsy(x) == x = None \/ x = <<>>

NoExc == [type |-> "none", msg |-> "", cause |-> ""]

NoResponse == [status |-> 0, detail |-> "", cause |-> ""]

-----------------------------------------------------------------------------
(* State after construction: a request has arrived, nothing has run *)

Init ==
    /\ pc = "upload"
    /\ json_output = EmptyDict
    /\ class_name = None
    /\ table_len = 0
    /\ r = 0
    /\ first_cell = None
    /\ hour = <<>>
    /\ i = 0
    /\ day = ""
    /\ blocks = <<>>
    /\ j = 0
    /\ exc = NoExc
    /\ extracted = "pending"
    /\ response = NoResponse
    /\ processed = <<>>
    /\ skipped = "none"
    /\ parsed = 0

\* upload_file, lines 180-184: the content type test
UploadFile ==
    /\ pc = "upload"
    /\ \E content_type \in {"application/pdf", "text/plain"} :
          IF content_type # "application/pdf"
          THEN /\ response' = [status |-> 400, detail |-> OnlyPdfMsg, cause |-> ""]
               /\ pc' = "responded"
          ELSE /\ response' = response
               /\ pc' = "sync"
    /\ UNCHANGED <<json_output, class_name, table_len, r, first_cell, hour, i,
                   day, blocks, j, exc, extracted, processed, skipped, parsed>>

\* extract_pdf_data_sync, lines 51-52
Begin ==
    /\ pc = "sync"
    /\ json_output' = [d \in {weekdays[k] : k \in 1..Len(weekdays)} |-> EmptyDict]
    /\ class_name' = None
    /\ pc' = "extract"
    /\ UNCHANGED <<table_len, r, first_cell, hour, i, day, blocks, j, exc,
                   extracted, response, processed, skipped, parsed>>

\* the handlers of lines 150-153 for an exception of class t raised in the try
Handled(t, msg) ==
    IF t = "ValueError"
    THEN [type |-> "ValueError", msg |-> msg, cause |-> ""]
    ELSE [type |-> "RuntimeError", msg |-> ProcessingMsg, cause |-> t]

\* lines 55-60: pdfplumber raises while opening the file or extracting the table
ExtractorRaises ==
    /\ pc = "extract"
    /\ \E t \in {"ValueError", "Exception"} :
          /\ extracted' = t
          /\ exc' = Handled(t, "raised by the extractor")
    /\ pc' = "raised"
    /\ UNCHANGED <<json_output, class_name, table_len, r, first_cell, hour, i,
                   day, blocks, j, response, processed, skipped, parsed>>

\* lines 62-63: extract_table returns None
NoTable ==
    /\ pc = "extract"
    /\ extracted' = "none"
    /\ exc' = Handled("ValueError", NoTableMsg)
    /\ pc' = "raised"
    /\ UNCHANGED <<json_output, class_name, table_len, r, first_cell, hour, i,
                   day, blocks, j, response, processed, skipped, parsed>>

\* lines 57-65: extract_table returns a list of n rows
TableFound ==
    /\ pc = "extract"
    /\ \E n \in 0..(HeaderRows + MaxHourRows) : table_len' = n
    /\ extracted' = "table"
    /\ r' = 0
    /\ pc' = "rows"
    /\ UNCHANGED <<json_output, class_name, first_cell, hour, i, day, blocks, j,
                   exc, response, processed, skipped, parsed>>

\* line 67 with hour_rows exhausted, line 155
Return ==
    /\ pc = "rows"
    /\ r = HourRowCount(table_len)
    /\ pc' = "returned"
    /\ UNCHANGED <<json_output, class_name, table_len, r, first_cell, hour, i,
                   day, blocks, j, exc, extracted, response, processed, skipped,
                   parsed>>

\* lines 67-69 for a row without cells: row[0] raises IndexError
RowIndexError ==
    /\ pc = "rows"
    /\ r < HourRowCount(table_len)
    /\ r' = r + 1
    /\ exc' = Handled("IndexError", "list index out of range")
    /\ pc' = "raised"
    /\ UNCHANGED <<json_output, class_name, table_len, first_cell, hour, i, day,
                   blocks, j, extracted, response, processed, skipped, parsed>>

\* lines 67-74 for a row whose first cell is c
RowHead ==
    /\ pc = "rows"
    /\ r < HourRowCount(table_len)
    /\ \E c \in FirstCells :
          /\ first_cell' = c
          /\ IF Falsy(c)
             THEN /\ skipped' = "row"
                  /\ UNCHANGED <<hour, i, pc>>
             ELSE LET h == Strip(c, {"."})
                  IN IF Falsy(h)
                     THEN /\ skipped' = "row"
                          /\ UNCHANGED <<hour, i, pc>>
                     ELSE /\ skipped' = "none"
                          /\ hour' = h
                          /\ i' = 1
                          /\ pc' = "cells"
    /\ r' = r + 1
    /\ UNCHANGED <<json_output, class_name, table_len, day, blocks, j, exc,
                   extracted, response, processed, parsed>>

\* line 76 with row[1:] exhausted: the row has i cells
EndOfRow ==
    /\ pc = "cells"
    /\ pc' = "rows"
    /\ skipped' = "none"
    /\ UNCHANGED <<json_output, class_name, table_len, r, first_cell, hour, i,
                   day, blocks, j, exc, extracted, response, processed, parsed>>

\* lines 76-86 for the cell at column i
Cell ==
    /\ pc = "cells"
    /\ i <= MaxCols
    /\ \E cell \in BlankCells \cup TextCells :
          LET day_index == DayIndex(i)
              text == ~Falsy(cell) /\ ~Falsy(Strip(cell, Whitespace))
          IN IF day_index >= Len(weekdays)
             THEN /\ skipped' = IF text THEN "column" ELSE "none"
                  /\ i' = i + 1
                  /\ UNCHANGED <<day, blocks, j, pc, parsed>>
             ELSE IF ~text
             THEN /\ skipped' = "none"
                  /\ day' = weekdays[day_index + 1]
                  /\ i' = i + 1
                  /\ UNCHANGED <<blocks, j, pc, parsed>>
             ELSE /\ parsed < MaxCells
                  /\ parsed' = parsed + 1
                  /\ skipped' = "none"
                  /\ day' = weekdays[day_index + 1]
                  /\ blocks' = Split(Strip(cell, Whitespace), <<NL>>)
                  /\ j' = 0
                  /\ pc' = "blocks"
                  /\ i' = i
    /\ UNCHANGED <<json_output, class_name, table_len, r, first_cell, hour, exc,
                   extracted, response, processed>>

\* lines 89-148 for the block pair at index jj of the list bs
HandleBlock(bs, jj) ==
    LET b == ParseBlock(bs, jj)
    IN /\ class_name' = SetClassName(class_name, b.base_class)
       /\ json_output' = PutEntry(json_output, day, hour, b.entry)
       /\ processed' = Append(processed,
                              [row |-> r, col |-> i, blk |-> jj,
                               first_cell |-> first_cell,
                               day |-> day, hour |-> hour,
                               base_class |-> b.base_class,
                               entry |-> b.entry])

\* lines 88-148 for the block pair at j; after the last pair, the next cell
Block ==
    /\ pc = "blocks"
    /\ j < Len(blocks)
    /\ HandleBlock(blocks, j)
    /\ j' = j + 2
    /\ IF j + 2 < Len(blocks)
       THEN UNCHANGED <<pc, i>>
       ELSE pc' = "cells" /\ i' = i + 1
    /\ UNCHANGED <<table_len, r, first_cell, hour, day, blocks, exc, extracted,
                   response, skipped, parsed>>

\* extract_pdf_data, lines 163-174, and upload_file, lines 184-189.  The detail
\* of line 171 is "<detail>: <cause>" when the RuntimeError has a cause.  The
\* handler of line 173 is not reached: extract_pdf_data_sync lets only
\* ValueError and RuntimeError out.
Respond ==
    /\ pc \in {"returned", "raised"}
    /\ response' =
          IF pc = "returned" THEN [status |-> 200, detail |-> "", cause |-> ""]
          ELSE IF exc.type = "ValueError"
          THEN [status |-> 400, detail |-> exc.msg, cause |-> ""]
          ELSE [status |-> 500, detail |-> exc.msg, cause |-> exc.cause]
    /\ pc' = "responded"
    /\ UNCHANGED <<json_output, class_name, table_len, r, first_cell, hour, i,
                   day, blocks, j, exc, extracted, processed, skipped, parsed>>

Next ==
    \/ UploadFile
    \/ Begin
    \/ ExtractorRaises
    \/ NoTable
    \/ TableFound
    \/ Return
    \/ RowIndexError
    \/ RowHead
    \/ EndOfRow
    \/ Cell
    \/ Block
    \/ Respond

Spec == Init /\ [][Next]_vars

-----------------------------------------------------------------------------
(* The merge-or-append step on its own: a run stands in the first data row  *)
(* (hour label "1."), at a column of Montag, and block pairs of any kind    *)
(* arrive in that slot one after the other, whichever cell they come from.  *)

\* class/subject lines "X--M", "X/A--M", "X/b--M"
SlotClassLines == {<<"X", "-", "-", "M">>,
                   <<"X", "/", "A", "-", "-", "M">>,
                   <<"X", "/", "b", "-", "-", "M">>}

\* teacher/room lines "T--R", "T"
SlotTeacherLines == {<<"T", "-", "-", "R">>, <<"T">>}

SlotInit ==
    /\ pc = "blocks"
    /\ json_output = [d \in {weekdays[k] : k \in 1..Len(weekdays)} |-> EmptyDict]
    /\ class_name = None
    /\ table_len = HeaderRows + 1
    /\ r = 1
    /\ first_cell = <<"1", ".">>
    /\ hour = Strip(first_cell, {"."})
    /\ i = 1
    /\ day = weekdays[DayIndex(i) + 1]
    /\ blocks = <<>>
    /\ j = 0
    /\ exc = NoExc
    /\ extracted = "table"
    /\ response = NoResponse
    /\ processed = <<>>
    /\ skipped = "none"
    /\ parsed = 0

\* lines 89-148 for a block pair arriving in the slot
Arrive ==
    /\ pc = "blocks"
    /\ Len(processed) < MaxArrivals
    /\ \E cl \in SlotClassLines, tl \in SlotTeacherLines :
          /\ blocks' = <<cl, tl>>
          /\ HandleBlock(<<cl, tl>>, 0)
    /\ UNCHANGED <<pc, table_len, r, first_cell, hour, i, day, j, exc, extracted,
                   response, skipped, parsed>>

SlotNext == Arrive

SlotSpec == SlotInit /\ [][SlotNext]_vars

-----------------------------------------------------------------------------
(* Vocabulary of the properties *)

Days == {weekdays[k] : k \in 1..Len(weekdays)}

SameLesson(a, b) ==
    a.subject = b.subject /\ a.teacher = b.teacher /\ a.room = b.room

\* the list of slot (d, h), empty when the slot does not exist
SlotList(d, h) ==
    IF d \in DOMAIN json_output /\ h \in DOMAIN json_output[d]
    THEN json_output[d][h]
    ELSE <<>>

\* the block pairs handled so far in slot (d, h), in the order of arrival
Arrived(d, h) ==
    LET InSlot(p) == p.day = d /\ p.hour = h
    IN SelectSeq(processed, InSlot)

\* every hour label that names a slot or under which a block pair was handled
AllHours ==
    UNION {DOMAIN json_output[d] : d \in DOMAIN json_output}
        \cup {processed[k].hour : k \in 1..Len(processed)}

\* number of entries of the list for lesson e with specialization sp
CountEntries(list, e, sp) ==
    Cardinality({k \in 1..Len(list) :
                    SameLesson(list[k], e) /\ list[k].specialization = sp})

\* number of arrived block pairs for lesson e with specialization sp
CountArrived(arr, e, sp) ==
    Cardinality({k \in 1..Len(arr) :
                    SameLesson(arr[k].entry, e) /\ arr[k].entry.specialization = sp})

Min(a, b) == IF a < b THEN a ELSE b

\* (row, column, block) of p comes before that of q
Before(p, q) ==
    \/ p.row < q.row
    \/ p.row = q.row /\ p.col < q.col
    \/ p.row = q.row /\ p.col = q.col /\ p.blk < q.blk

-----------------------------------------------------------------------------
(* C1: after every merge-or-append step, no slot holds two entries with the *)
(* same subject, teacher and room whose specializations are 2 and 3.        *)
C1_NoSplitPair ==
    \A d \in DOMAIN json_output : \A h \in DOMAIN json_output[d] :
        LET list == json_output[d][h]
        IN \A a, b \in 1..Len(list) :
              ~(/\ SameLesson(list[a], list[b])
                /\ {list[a].specialization, list[b].specialization} = {2, 3})

\* group B arrived first, then group A twice: one pair merged, one A left over
C1_Witness ==
    \E d \in DOMAIN json_output : \E h \in DOMAIN json_output[d] :
        LET arr == Arrived(d, h)
            list == json_output[d][h]
        IN /\ Len(arr) = 3
           /\ arr[1].entry.specialization = 3
           /\ arr[2].entry.specialization = 2
           /\ arr[3].entry.specialization = 2
           /\ SameLesson(arr[1].entry, arr[2].entry)
           /\ SameLesson(arr[1].entry, arr[3].entry)
           /\ Len(list) = 2
           /\ list[1].specialization = 1
           /\ list[2].specialization = 2

(* C2: when exactly two block pairs fell into a slot, with the same subject, *)
(* teacher and room and the specializations 2 and 3 in either order, the    *)
(* slot's list is exactly one entry, with specialization 1.                 *)
C2_MergeLaw ==
    \A d \in Days : \A h \in AllHours :
        LET arr == Arrived(d, h)
        IN (/\ Len(arr) = 2
            /\ SameLesson(arr[1].entry, arr[2].entry)
            /\ {arr[1].entry.specialization, arr[2].entry.specialization} = {2, 3})
           => SlotList(d, h) = <<[arr[1].entry EXCEPT !.specialization = 1]>>

\* group B in the first column of a weekday, group A in its second column
C2_Witness ==
    \E d \in Days : \E h \in AllHours :
        LET arr == Arrived(d, h)
        IN /\ Len(arr) = 2
           /\ SameLesson(arr[1].entry, arr[2].entry)
           /\ arr[1].entry.specialization = 3
           /\ arr[2].entry.specialization = 2
           /\ arr[1].row = arr[2].row
           /\ arr[1].col + 1 = arr[2].col
           /\ Len(SlotList(d, h)) = 1
           /\ pc = "returned"

(* C3: a block pair that arrives in a slot where no entry has the same      *)
(* subject, teacher and room with the two specializations forming {2,3} is  *)
(* appended at the end of the list; equal specializations never merge, and  *)
(* an entry with specialization 1 is never merged.                          *)
C3_NonMergeLaw ==
    [][Len(processed') = Len(processed) + 1 =>
          LET e   == processed'[Len(processed')].entry
              old == SlotList(day, hour)
          IN (~\E k \in 1..Len(old) :
                   /\ SameLesson(old[k], e)
                   /\ {old[k].specialization, e.specialization} = {2, 3})
             => SlotList(day, hour)' = Append(old, e)]_vars

\* the same lesson three times for the whole class and twice for group B
C3_Witness ==
    \E d \in DOMAIN json_output : \E h \in DOMAIN json_output[d] :
        LET list == json_output[d][h]
        IN /\ Len(list) = 5
           /\ \A k \in 1..5 : SameLesson(list[k], list[1])
           /\ list[1].specialization = 1
           /\ list[2].specialization = 3
           /\ list[3].specialization = 1
           /\ list[4].specialization = 3
           /\ list[5].specialization = 1

(* C4: class_name is the base_class of the first block pair handled in row, *)
(* column, block order, and nothing handled later changes it.               *)
C4_ClassNameWriteOnce ==
    /\ \A a, b \in 1..Len(processed) :
          a < b => Before(processed[a], processed[b])
    /\ class_name = IF processed = <<>> THEN None ELSE processed[1].base_class

\* a later row brought another base_class and class_name kept the first one
C4_Witness ==
    /\ Len(processed) >= 2
    /\ processed[1].row < processed[Len(processed)].row
    /\ processed[1].base_class = <<"X">>
    /\ processed[Len(processed)].base_class = <<"Y">>
    /\ class_name = <<"X">>
    /\ pc = "returned"

(* C5 as stated: class_name is the first non-empty base_class, so it is     *)
(* never the empty string and a block pair with an empty base_class leaves  *)
(* it unset.                                                                *)
C5_FirstNonEmpty ==
    LET nonEmpty == {k \in 1..Len(processed) : processed[k].base_class # <<>>}
    IN class_name =
          IF nonEmpty = {} THEN None
          ELSE processed[CHOOSE k \in nonEmpty : \A m \in nonEmpty : k <= m].base_class

(* C5 as amended: class_name is set by the first block pair handled even    *)
(* when its base_class is the empty string: it is the empty string exactly  *)
(* when the first block pair has an empty base_class, whatever comes later,  *)
(* and it is None exactly when no block pair was handled.                   *)
C5_FirstEvenIfEmpty ==
    /\ class_name = None <=> processed = <<>>
    /\ class_name = <<>> <=> (processed # <<>> /\ processed[1].base_class = <<>>)

\* an empty base_class came first, a non-empty one later: class_name is ""
C5_Witness ==
    /\ Len(processed) >= 2
    /\ processed[1].base_class = <<>>
    /\ processed[2].base_class # <<>>
    /\ class_name = <<>>
    /\ pc = "returned"

(* C6: while a table is walked and in the result, the weekday keys are      *)
(* exactly the five names; a table of fewer than 4 rows returns, without    *)
(* error, five empty weekdays and class_name None.                          *)
C6_WeekdayKeys ==
    /\ (pc = "extract" \/ extracted # "pending") => DOMAIN json_output = Days
    /\ (extracted = "table" /\ table_len < HeaderRows + 1) =>
          /\ pc \in {"rows", "returned", "responded"}
          /\ exc = NoExc
          /\ class_name = None
          /\ \A d \in Days : json_output[d] = EmptyDict
          /\ pc = "responded" => response.status = 200

\* a table of exactly the three header rows was answered with 200
C6_Witness ==
    /\ extracted = "table"
    /\ table_len = HeaderRows
    /\ pc = "responded"
    /\ response.status = 200
    /\ \A d \in Days : json_output[d] = EmptyDict

(* C7 as stated: extraction is answered with 400 exactly when the extractor *)
(* returned no table, then with the no-table message, and every other       *)
(* failure is answered with 500.                                            *)
C7_FailureMapping ==
    (pc = "responded" /\ extracted # "pending") =>
        /\ response.status = 400 <=> extracted = "none"
        /\ extracted = "none" => response.detail = NoTableMsg
        /\ (exc # NoExc /\ extracted # "none") => response.status = 500

(* C8 as stated: a row whose first cell is None, empty, whitespace-only or  *)
(* missing is skipped without error, so no walked row and no hour key has a *)
(* blank hour label.                                                        *)
C8_RowWithoutHourSkipped ==
    /\ pc \in {"cells", "blocks"} =>
          (first_cell # None /\ Strip(first_cell, Whitespace) # <<>>)
    /\ exc.cause # "IndexError"
    /\ \A d \in DOMAIN json_output : \A h \in DOMAIN json_output[d] :
          Strip(h, Whitespace) # <<>>

(* C9: every entry made from the cell at column i is filed under weekday    *)
(* (i-1) div 2 and the row's hour label and nowhere else; a cell at a       *)
(* column beyond 10 makes no entry and does not set class_name.             *)
C9_ColumnToDay ==
    /\ \A k \in 1..Len(processed) : processed[k].col <= 10
    /\ processed = <<>> => class_name = None
    /\ \A d \in Days : \A h \in AllHours :
          LET here == {k \in 1..Len(processed) :
                          /\ weekdays[((processed[k].col - 1) \div 2) + 1] = d
                          /\ Strip(processed[k].first_cell, {"."}) = h}
              list == SlotList(d, h)
          IN /\ \A k \in here : \E m \in 1..Len(list) :
                   SameLesson(list[m], processed[k].entry)
             /\ \A m \in 1..Len(list) : \E k \in here :
                   SameLesson(list[m], processed[k].entry)
             /\ Len(list) <= Cardinality(here)

\* column 10 filed under Freitag, then a cell with text at column 11 skipped
C9_Witness ==
    /\ skipped = "column"
    /\ i = 12
    /\ \E k \in 1..Len(processed) :
          /\ processed[k].col = 10
          /\ processed[k].row = r
          /\ SlotList("Freitag", hour) # <<>>
    /\ \A d \in Days \ {"Freitag"} : json_output[d] = EmptyDict

(* C10: the entries of a slot depend on how many block pairs of each kind   *)
(* arrived, not on their order: for each lesson with n1, n2, n3 arrivals of *)
(* specialization 1, 2, 3 the list holds n1 + min(n2, n3) entries with      *)
(* specialization 1 and |n2 - n3| entries of the more frequent of 2 and 3.  *)
C10_OrderIndependent ==
    \A d \in Days : \A h \in AllHours :
        LET arr  == Arrived(d, h)
            list == SlotList(d, h)
        IN /\ \A m \in 1..Len(list) : \E k \in 1..Len(arr) :
                 SameLesson(list[m], arr[k].entry)
           /\ \A k \in 1..Len(arr) :
                 LET e  == arr[k].entry
                     n1 == CountArrived(arr, e, 1)
                     n2 == CountArrived(arr, e, 2)
                     n3 == CountArrived(arr, e, 3)
                 IN /\ CountEntries(list, e, 1) = n1 + Min(n2, n3)
                    /\ CountEntries(list, e, 2) = IF n2 > n3 THEN n2 - n3 ELSE 0
                    /\ CountEntries(list, e, 3) = IF n3 > n2 THEN n3 - n2 ELSE 0

\* group A, whole class, then group B three times: one merge, two B left over
C10_Witness ==
    \E d \in Days : \E h \in AllHours :
        LET arr  == Arrived(d, h)
            list == SlotList(d, h)
        IN /\ Len(arr) = 5
           /\ \A k \in 1..5 : SameLesson(arr[k].entry, arr[1].entry)
           /\ arr[1].entry.specialization = 2
           /\ arr[2].entry.specialization = 1
           /\ arr[3].entry.specialization = 3
           /\ arr[4].entry.specialization = 3
           /\ arr[5].entry.specialization = 3
           /\ Len(list) = 4

=============================================================================
